---------------------------- MODULE Spec2Model ----------------------------
(***************************************************************************)
(* A model of src/pong_game.py: the PongGame main loop (run), its event    *)
(* handlers, the simulation tick (update_game_logic) and the objects they  *)
(* mutate (Paddle, Ball, AIPlayer, ScoreBoard).                            *)
(*                                                                         *)
(* Numbers.  Paddle positions, ball.x and ball.speed_x are Python ints.    *)
(* ball.y and ball.speed_y become Python floats at the first paddle hit    *)
(* (speed_y = (hit_pos - 0.5) * 8).  They are kept here as exact rationals *)
(* in units of 1/Scale: ball_y and speed_y hold Scale times the program's  *)
(* value.  Every paddle hit of a rally multiplies the denominator by 45,   *)
(* so Scale = 45^MaxHits is exact for MaxHits hits per rally.  The         *)
(* rounding error of IEEE doubles (about 1e-13 here) is not modelled.      *)
(*                                                                         *)
(* Fractions of the difficulty table are kept as integers: multipliers in  *)
(* tenths, the reaction chance and random.random() in hundredths.          *)
(***************************************************************************)
EXTENDS Integers, Sequences, FiniteSets, TLC

(***************************************************************************)
(* Program constants (src/pong_game.py lines 11-18).                       *)
(***************************************************************************)
WINDOW_WIDTH == 800
WINDOW_HEIGHT == 600
PADDLE_WIDTH == 15
PADDLE_HEIGHT == 90
BALL_SIZE == 15
PADDLE_SPEED == 7
BALL_SPEED_X == 6
BALL_SPEED_Y == 4

\* x of the two paddles, Paddle(30, ...) and Paddle(WINDOW_WIDTH - 30 - PADDLE_WIDTH, ...)
PLAYER_X == 30
AI_X == WINDOW_WIDTH - 30 - PADDLE_WIDTH

\* the dead zone of AIPlayer.update
DEAD_ZONE == 15

(***************************************************************************)
(* Bounds of the model.                                                    *)
(***************************************************************************)
\* paddle hits per rally that ball_y / speed_y can hold exactly
MaxHits == 2
\* points after which no further frame is observed
MaxPoints == 2
\* frames observed by Spec, whose inputs are unrestricted
MaxFrames == 6
\* events returned by one pygame.event.get() in Spec
MaxEvents == 2

RECURSIVE Pow(_, _)
Pow(b, n) == IF n = 0 THEN 1 ELSE b * Pow(b, n - 1)

\* ball_y and speed_y are in units of 1/Scale
Scale == Pow(PADDLE_HEIGHT \div 2, MaxHits)

Difficulties == {"easy", "medium", "hard"}

\* DIFFICULTY_SETTINGS: ai_speed and ball_speed_multiplier in tenths,
\* ai_reaction in hundredths
DIFFICULTY_SETTINGS ==
    [d \in Difficulties |->
        CASE d = "easy"   -> [ai_speed |-> 5,  ai_reaction |-> 60, ball_speed_multiplier |-> 8]
          [] d = "medium" -> [ai_speed |-> 8,  ai_reaction |-> 80, ball_speed_multiplier |-> 10]
          [] d = "hard"   -> [ai_speed |-> 12, ai_reaction |-> 95, ball_speed_multiplier |-> 13]]

\* Python's int() of the rational n/d (d > 0): truncation toward zero
PyInt(n, d) == IF n >= 0 THEN n \div d ELSE -((-n) \div d)

Abs(n) == IF n < 0 THEN -n ELSE n

(***************************************************************************)
(* Paddle                                                                  *)
(***************************************************************************)
\* Paddle.move_up: the new y of a paddle at y moving with speed
move_up(y, speed) == IF y > 0 THEN y - speed ELSE y

\* Paddle.move_down
move_down(y, speed) == IF y < WINDOW_HEIGHT - PADDLE_HEIGHT THEN y + speed ELSE y

(***************************************************************************)
(* Ball                                                                    *)
(***************************************************************************)
\* Ball.set_difficulty had it truncated the multiplier before scaling: int(multiplier) * base
Ball_speed_x_int_first(d) ==
    BALL_SPEED_X * PyInt(DIFFICULTY_SETTINGS[d].ball_speed_multiplier, 10)

\* Ball.set_difficulty had it rounded to nearest: round(base * multiplier)
Ball_speed_x_rounded(d) ==
    PyInt(2 * BALL_SPEED_X * DIFFICULTY_SETTINGS[d].ball_speed_multiplier + 10, 20)

\* Ball.set_difficulty: speed_x = int(base_speed_x * multiplier)
Ball_speed_x(d) == PyInt(BALL_SPEED_X * DIFFICULTY_SETTINGS[d].ball_speed_multiplier, 10)

\* Ball.set_difficulty: speed_y = int(base_speed_y * multiplier), in units of 1/Scale
Ball_speed_y(d) == Scale * PyInt(BALL_SPEED_Y * DIFFICULTY_SETTINGS[d].ball_speed_multiplier, 10)

\* Ball.reset: the center position
\* Ball.set_difficulty had it kept the direction of each axis
Ball_set_difficulty_keeps_sign(vx, vy, d) ==
    [speed_x |-> IF vx < 0 THEN -Ball_speed_x(d) ELSE Ball_speed_x(d),
     speed_y |-> IF vy < 0 THEN -Ball_speed_y(d) ELSE Ball_speed_y(d)]

\* Ball.set_difficulty(d) on a ball of velocity (vx, vy): the velocity it leaves
Ball_set_difficulty(vx, vy, d) ==
    [speed_x |-> Ball_speed_x(d), speed_y |-> Ball_speed_y(d)]

RESET_X == WINDOW_WIDTH \div 2 - BALL_SIZE \div 2
RESET_Y == WINDOW_HEIGHT \div 2 - BALL_SIZE \div 2

\* random.choice([True, False]) keeps (TRUE) or negates (FALSE) a speed in Ball.reset
Signed(v, keep) == IF keep THEN v ELSE -v

\* update_game_logic: the ball is past the left edge (the AI scores)
OutLeft(x) == x < 0

\* the test of the right edge had it waited for the whole ball to leave
OutRight_whole_ball(x) == x > WINDOW_WIDTH + BALL_SIZE

\* update_game_logic: the ball is past the right edge (the player scores)
OutRight(x) == x > WINDOW_WIDTH

\* Ball.move: whether the moved ball is at or beyond the top or bottom wall
AtWall(y) == y <= 0 \/ y >= (WINDOW_HEIGHT - BALL_SIZE) * Scale

\* Rect.colliderect testing the horizontal extent only
colliderect_x_only(ax, ay, aw, ah, bx, by, bw, bh) ==
    ax < bx + bw /\ bx < ax + aw

\* pygame.Rect(x, y, w, h).colliderect: strict overlap of two rectangles
colliderect(ax, ay, aw, ah, bx, by, bw, bh) ==
    /\ ax < bx + bw
    /\ ay < by + bh
    /\ ax + aw > bx
    /\ ay + ah > by

\* ball.rect.colliderect(paddle.rect): ball.rect.y is int(ball.y)
BallHitsPaddle(bx, by, px, py) ==
    colliderect(bx, PyInt(by, Scale), BALL_SIZE, BALL_SIZE, px, py, PADDLE_WIDTH, PADDLE_HEIGHT)

\* the deflection had hit_pos been taken from the ball's center
HitSpeedY_from_center(by, py) ==
    (8 * (by + (BALL_SIZE \div 2) * Scale - py * Scale) - 4 * PADDLE_HEIGHT * Scale)
        \div PADDLE_HEIGHT

\* hit_pos = (ball.y - paddle.y) / paddle.height;  speed_y = (hit_pos - 0.5) * 8
\* in units of 1/Scale: (8 * (ball.y - paddle.y) - 4 * height) / height
HitSpeedY(by, py) == (8 * (by - py * Scale) - 4 * PADDLE_HEIGHT * Scale) \div PADDLE_HEIGHT

(***************************************************************************)
(* AIPlayer                                                                *)
(***************************************************************************)
\* AIPlayer.set_difficulty: paddle.speed = int(PADDLE_SPEED * speed_multiplier)
AI_paddle_speed(d) == PyInt(PADDLE_SPEED * DIFFICULTY_SETTINGS[d].ai_speed, 10)

\* AIPlayer.set_difficulty: reaction_chance
AI_reaction_chance(d) == DIFFICULTY_SETTINGS[d].ai_reaction

\* AIPlayer.update without its dead zone
AIPlayer_update_no_dead_zone(ay, aspeed, chance, by, vx, r) ==
    LET paddle_center == (ay + PADDLE_HEIGHT \div 2) * Scale
        ball_center == by + (BALL_SIZE \div 2) * Scale
    IN  IF vx > 0 /\ r < chance
        THEN IF paddle_center < ball_center THEN move_down(ay, aspeed)
             ELSE IF paddle_center > ball_center THEN move_up(ay, aspeed)
             ELSE ay
        ELSE ay

\* AIPlayer.update without its `if self.ball.speed_x > 0`
AIPlayer_update_any_direction(ay, aspeed, chance, by, vx, r) ==
    LET paddle_center == (ay + PADDLE_HEIGHT \div 2) * Scale
        ball_center == by + (BALL_SIZE \div 2) * Scale
    IN  IF r < chance
        THEN IF paddle_center < ball_center - DEAD_ZONE * Scale THEN move_down(ay, aspeed)
             ELSE IF paddle_center > ball_center + DEAD_ZONE * Scale THEN move_up(ay, aspeed)
             ELSE ay
        ELSE ay

\* AIPlayer.update: the new y of the AI paddle, given the ball after Ball.move
\* and the outcome r of random.random() (hundredths)
AIPlayer_update(ay, aspeed, chance, by, vx, r) ==
    LET paddle_center == (ay + PADDLE_HEIGHT \div 2) * Scale
        ball_center == by + (BALL_SIZE \div 2) * Scale
    IN  IF vx > 0 /\ r < chance
        THEN IF paddle_center < ball_center - DEAD_ZONE * Scale THEN move_down(ay, aspeed)
             ELSE IF paddle_center > ball_center + DEAD_ZONE * Scale THEN move_up(ay, aspeed)
             ELSE ay
        ELSE ay

(***************************************************************************)
(* ScoreBoard                                                              *)
(***************************************************************************)
\* ScoreBoard.update_score had its `else` been lost: the AI counter always advances
update_score_both(ps, as, player_scored) ==
    [player_score |-> IF player_scored THEN ps + 1 ELSE ps, ai_score |-> as + 1]

\* ScoreBoard.update_score assigning the other counter instead of leaving it
update_score_clears_other(ps, as, player_scored) ==
    IF player_scored
    THEN [player_score |-> ps + 1, ai_score |-> 0]
    ELSE [player_score |-> 0, ai_score |-> as + 1]

\* ScoreBoard.update_score with the flag inverted
update_score_swapped(ps, as, player_scored) ==
    IF player_scored
    THEN [player_score |-> ps, ai_score |-> as + 1]
    ELSE [player_score |-> ps + 1, ai_score |-> as]

\* ScoreBoard.update_score(player_scored): the scores it leaves
update_score(ps, as, player_scored) ==
    IF player_scored
    THEN [player_score |-> ps + 1, ai_score |-> as]
    ELSE [player_score |-> ps, ai_score |-> as + 1]

(***************************************************************************)
(* SoundManager                                                            *)
(***************************************************************************)
SoundNames == {"paddle_hit", "wall_hit", "score"}

\* SoundManager.play_sound without its try / except
play_sound_unguarded(sound_name, objects, failing) ==
    IF sound_name \in objects
    THEN IF sound_name \in failing THEN "raised" ELSE "played"
    ELSE "skipped"

\* SoundManager.play_sound(sound_name): what becomes of the call, objects being
\* the names whose Sound object exists (load_sounds leaves None when the sound
\* could not be made) and failing the names whose Sound.play() raises now
play_sound(sound_name, objects, failing) ==
    IF sound_name \in objects
    THEN IF sound_name \in failing THEN "swallowed" ELSE "played"
    ELSE "skipped"

(***************************************************************************)
(* State                                                                   *)
(***************************************************************************)
VARIABLES
    pc,              \* where PongGame.run is: "loop", "menu_events", "game_events", "update", "exit",
                     \* or "raised" when an exception has left update_game_logic
    running,         \* PongGame.running
    game_state,      \* PongGame.game_state: "menu" or "playing"
    difficulty,      \* PongGame.difficulty
    queue,           \* the events of pygame.event.get() still to be handled by the for loop
    player_y,        \* player_paddle.y
    player_speed,    \* player_paddle.speed
    ai_y,            \* ai_paddle.y
    ai_speed,        \* ai_paddle.speed
    reaction_chance, \* ai_player.reaction_chance (hundredths)
    ball_x,          \* ball.x
    ball_y,          \* ball.y (1/Scale)
    speed_x,         \* ball.speed_x
    speed_y,         \* ball.speed_y (1/Scale)
    player_score,    \* scoreboard.player_score
    ai_score,        \* scoreboard.ai_score
    sounds,          \* the play_sound calls of the latest update_game_logic, in order
    outcomes,        \* what became of each of these calls
    sound_objects,   \* the names whose entry of sound_manager.sounds is a Sound object
    hits,            \* paddle hits since the ball was last reset (bookkeeping for MaxHits)
    last_hit,        \* the paddle of the latest of them: "player", "ai", or "none" (bookkeeping)
    frames           \* iterations of the main loop begun (bookkeeping for MaxFrames)

paddles == <<player_y, player_speed, ai_y, ai_speed, reaction_chance>>
ball == <<ball_x, ball_y, speed_x, speed_y, hits, last_hit>>
scores == <<player_score, ai_score>>
audio == <<outcomes, sound_objects>>
vars == <<pc, running, game_state, difficulty, queue, paddles, ball, scores, sounds, audio, frames>>

Events == {"QUIT", "K_1", "K_2", "K_3", "K_ESCAPE"}

RECURSIVE SeqsUpTo(_, _)
SeqsUpTo(S, n) ==
    IF n = 0 THEN {<<>>}
    ELSE LET shorter == SeqsUpTo(S, n - 1)
         IN  shorter \cup {Append(q, e) : q \in shorter, e \in S}

\* what pygame.event.get() may return in one frame
Batches == SeqsUpTo(Events, MaxEvents)

\* pygame.key.get_pressed(): K_UP or K_w held, K_DOWN or K_s held
KeyStates == [up : BOOLEAN, down : BOOLEAN]

\* outcomes of random.random(), in hundredths
Draws == {0, 70, 90, 99}

\* outcomes of the two random.choice([True, False]) of Ball.reset and Ball.__init__
Coins == [x : BOOLEAN, y : BOOLEAN]

(***************************************************************************)
(* PongGame.__init__: menu, medium, both paddles centered, the ball at the *)
(* center with a random direction.                                         *)
(***************************************************************************)
Init ==
    /\ pc = "loop"
    /\ running = TRUE
    /\ game_state = "menu"
    /\ difficulty = "medium"
    /\ queue = <<>>
    /\ player_y = WINDOW_HEIGHT \div 2 - PADDLE_HEIGHT \div 2
    /\ player_speed = PADDLE_SPEED
    /\ ai_y = WINDOW_HEIGHT \div 2 - PADDLE_HEIGHT \div 2
    /\ ai_speed = AI_paddle_speed("medium")
    /\ reaction_chance = AI_reaction_chance("medium")
    /\ ball_x = RESET_X
    /\ ball_y = RESET_Y * Scale
    /\ \E c \in Coins :
        /\ speed_x = Signed(Ball_speed_x("medium"), c.x)
        /\ speed_y = Signed(Ball_speed_y("medium"), c.y)
    /\ player_score = 0
    /\ ai_score = 0
    /\ sounds = <<>>
    /\ outcomes = <<>>
    /\ sound_objects \in SUBSET SoundNames
    /\ hits = 0
    /\ last_hit = "none"
    /\ frames = 0

(***************************************************************************)
(* Ball.reset(difficulty): back to the center, the speed of the            *)
(* difficulty, each axis negated or not by a coin.                         *)
(***************************************************************************)
Ball_reset(d, c) ==
    /\ ball_x' = RESET_X
    /\ ball_y' = RESET_Y * Scale
    /\ speed_x' = Signed(Ball_set_difficulty(speed_x, speed_y, d).speed_x, c.x)
    /\ speed_y' = Signed(Ball_set_difficulty(speed_x, speed_y, d).speed_y, c.y)
    /\ hits' = 0
    /\ last_hit' = "none"

(***************************************************************************)
(* PongGame.start_game(d)                                                  *)
(***************************************************************************)
\* start_game without its `self.ai_player.set_difficulty(difficulty)`
start_game_skips_ai(d, c) ==
    /\ difficulty' = d
    /\ game_state' = "playing"
    /\ Ball_reset(d, c)
    /\ player_score' = 0
    /\ ai_score' = 0
    /\ UNCHANGED <<running, player_speed, ai_y, ai_speed, reaction_chance>>

\* start_game without the two assignments that zero the scores
start_game_keeps_scores(d, c) ==
    /\ difficulty' = d
    /\ game_state' = "playing"
    /\ Ball_reset(d, c)
    /\ ai_speed' = AI_paddle_speed(d)
    /\ reaction_chance' = AI_reaction_chance(d)
    /\ UNCHANGED <<running, player_speed, ai_y, player_score, ai_score>>

start_game(d, c) ==
    /\ difficulty' = d
    /\ game_state' = "playing"
    /\ Ball_reset(d, c)
    /\ ai_speed' = AI_paddle_speed(d)
    /\ reaction_chance' = AI_reaction_chance(d)
    /\ player_score' = 0
    /\ ai_score' = 0
    /\ UNCHANGED <<running, player_speed, ai_y>>

\* the difficulty a number key selects in the menu
SelectedBy == [e \in {"K_1", "K_2", "K_3"} |->
                 CASE e = "K_1" -> "easy" [] e = "K_2" -> "medium" [] e = "K_3" -> "hard"]

(***************************************************************************)
(* Program counter.  PongGame.run is followed from label to label:         *)
(*   "loop"         the head of `while self.running`                       *)
(*   "menu_events"  the head of the for body of handle_menu_events, with   *)
(*                  queue the events still to be handled                   *)
(*   "game_events"  the same for handle_game_events                        *)
(*   "update"       the call of update_game_logic                          *)
(*   "exit"         after the loop                                         *)
(* A for loop whose events are exhausted falls through to the code after   *)
(* it in the same step.                                                    *)
(***************************************************************************)

\* handle_game_events after its for loop: the continuous key presses
KeysMove(keys) ==
    LET up == IF keys.up THEN move_up(player_y, player_speed) ELSE player_y
    IN  IF keys.down THEN move_down(up, player_speed) ELSE up

\* the code after the for loop of the handler that is running (menu: render_menu
\* and clock.tick change nothing modelled; game: the key presses, then update_game_logic)
AfterEvents(handler, keystates) ==
    IF handler = "menu_events"
    THEN pc' = "loop" /\ UNCHANGED player_y
    ELSE pc' = "update" /\ \E keys \in keystates : player_y' = KeysMove(keys)

\* PongGame.run: an iteration of `while self.running` dispatches on game_state and
\* the handler polls pygame.event.get()
Poll(batches, keystates) ==
    /\ pc = "loop"
    /\ running
    /\ LET handler == IF game_state = "menu" THEN "menu_events" ELSE "game_events"
       IN  \E b \in batches :
            /\ queue' = b
            /\ IF b = <<>>
               THEN AfterEvents(handler, keystates)
               ELSE pc' = handler /\ UNCHANGED player_y
    /\ UNCHANGED <<running, game_state, difficulty, player_speed, ai_y, ai_speed,
                   reaction_chance, ball, scores, sounds, audio>>

\* `while self.running` ends: pygame.quit(), sys.exit()
Exit ==
    /\ pc = "loop"
    /\ ~running
    /\ pc' = "exit"
    /\ UNCHANGED <<running, game_state, difficulty, queue, paddles, ball, scores, sounds, audio,
                   frames>>

(***************************************************************************)
(* PongGame.handle_menu_events: the body of the for loop for one event.    *)
(***************************************************************************)
MenuEvent ==
    /\ pc = "menu_events"
    /\ queue # <<>>
    /\ queue' = Tail(queue)
    /\ LET e == Head(queue)
       IN  IF e = "QUIT"
           THEN /\ running' = FALSE
                /\ UNCHANGED <<game_state, difficulty, player_speed, ai_y, ai_speed,
                               reaction_chance, ball, scores>>
           ELSE IF e \in DOMAIN SelectedBy
           THEN \E c \in Coins : start_game(SelectedBy[e], c)
           ELSE /\ e = "K_ESCAPE"
                /\ running' = FALSE
                /\ UNCHANGED <<game_state, difficulty, player_speed, ai_y, ai_speed,
                               reaction_chance, ball, scores>>
    /\ IF Tail(queue) = <<>>
       THEN AfterEvents("menu_events", {})
       ELSE UNCHANGED <<pc, player_y>>
    /\ UNCHANGED <<sounds, audio, frames>>

(***************************************************************************)
(* PongGame.handle_game_events: the body of the for loop for one event.    *)
(***************************************************************************)
GameEvent(keystates) ==
    /\ pc = "game_events"
    /\ queue # <<>>
    /\ queue' = Tail(queue)
    /\ LET e == Head(queue)
       IN  IF e = "QUIT"
           THEN running' = FALSE /\ UNCHANGED game_state
           ELSE IF e = "K_ESCAPE"
           THEN game_state' = "menu" /\ UNCHANGED running
           ELSE UNCHANGED <<running, game_state>>
    /\ IF Tail(queue) = <<>>
       THEN AfterEvents("game_events", keystates)
       ELSE UNCHANGED <<pc, player_y>>
    /\ UNCHANGED <<difficulty, player_speed, ai_y, ai_speed, reaction_chance, ball, scores,
                   sounds, audio, frames>>

(***************************************************************************)
(* PongGame.update_game_logic, as a function of the state it reads and of  *)
(* what it draws: r for the random.random() of AIPlayer.update (drawn only *)
(* when the ball moves right), c for Ball.reset (drawn only when a point   *)
(* is scored), failing for the Sound.play() calls that raise in this tick. *)
(* The result is the state it leaves; an exception that play_sound lets    *)
(* out ends the tick where the call stands.                                *)
(***************************************************************************)
Tick(r, c, failing) ==
    LET \* Ball.move
        x1 == ball_x + speed_x
        y1 == ball_y + speed_y
        wall == AtWall(y1)
        vy1 == IF wall THEN -speed_y ELSE speed_y
        outW == IF wall THEN <<play_sound("wall_hit", sound_objects, failing)>> ELSE <<>>
        raisedW == outW = <<"raised">>
        \* AIPlayer.update
        a1 == IF raisedW THEN ai_y
              ELSE AIPlayer_update(ai_y, ai_speed, reaction_chance, y1, speed_x, r)
        \* the player paddle
        hitP == ~raisedW /\ BallHitsPaddle(x1, y1, PLAYER_X, player_y) /\ speed_x < 0
        vx2 == IF hitP THEN -speed_x ELSE speed_x
        outP == IF hitP THEN <<play_sound("paddle_hit", sound_objects, failing)>> ELSE <<>>
        raisedP == raisedW \/ outP = <<"raised">>
        vy2 == IF hitP /\ ~raisedP THEN HitSpeedY(y1, player_y) ELSE vy1
        \* the AI paddle
        hitA == ~raisedP /\ BallHitsPaddle(x1, y1, AI_X, a1) /\ vx2 > 0
        vx3 == IF hitA THEN -vx2 ELSE vx2
        outA == IF hitA THEN <<play_sound("paddle_hit", sound_objects, failing)>> ELSE <<>>
        raisedA == raisedP \/ outA = <<"raised">>
        vy3 == IF hitA /\ ~raisedA THEN HitSpeedY(y1, a1) ELSE vy2
        \* scoring
        ai_scores == ~raisedA /\ OutLeft(x1)
        player_scores == ~raisedA /\ ~ai_scores /\ OutRight(x1)
        scored == ai_scores \/ player_scores
        board == IF ai_scores THEN update_score(player_score, ai_score, FALSE)
                 ELSE IF player_scores THEN update_score(player_score, ai_score, TRUE)
                 ELSE [player_score |-> player_score, ai_score |-> ai_score]
        outS == IF scored THEN <<play_sound("score", sound_objects, failing)>> ELSE <<>>
        raised == raisedA \/ outS = <<"raised">>
        reset == scored /\ ~raised
        nhits == hits + (IF hitP THEN 1 ELSE 0) + (IF hitA THEN 1 ELSE 0)
    IN  [ball_x |-> IF reset THEN RESET_X ELSE x1,
         ball_y |-> IF reset THEN RESET_Y * Scale ELSE y1,
         speed_x |-> IF reset
                     THEN Signed(Ball_set_difficulty(vx3, vy3, difficulty).speed_x, c.x)
                     ELSE vx3,
         speed_y |-> IF reset
                     THEN Signed(Ball_set_difficulty(vx3, vy3, difficulty).speed_y, c.y)
                     ELSE vy3,
         ai_y |-> a1,
         player_score |-> board.player_score,
         ai_score |-> board.ai_score,
         sounds |-> (IF wall THEN <<"wall_hit">> ELSE <<>>)
                    \o (IF hitP THEN <<"paddle_hit">> ELSE <<>>)
                    \o (IF hitA THEN <<"paddle_hit">> ELSE <<>>)
                    \o (IF scored THEN <<"score">> ELSE <<>>),
         outcomes |-> outW \o outP \o outA \o outS,
         hits |-> IF reset THEN 0 ELSE nhits,
         last_hit |-> IF reset THEN "none"
                      ELSE IF hitA THEN "ai" ELSE IF hitP THEN "player" ELSE last_hit,
         nhits |-> nhits,
         scored |-> scored,
         raised |-> raised]

\* random.random() is called only when ball.speed_x > 0
DrawsOf(draws) == IF speed_x > 0 THEN draws ELSE {0}

\* Ball.reset is called only when a point is scored
CoinsOf(t) == IF t.scored THEN Coins ELSE {[x |-> TRUE, y |-> TRUE]}

\* Sound.play() is called only for the sounds of the tick that have a Sound object
FailingOf(t) == SUBSET ({t.sounds[i] : i \in DOMAIN t.sounds} \cap sound_objects)

UpdateGameLogic(draws) ==
    /\ pc = "update"
    /\ \E r \in DrawsOf(draws) :
        \E quiet \in {Tick(r, [x |-> TRUE, y |-> TRUE], {})} :
            \E c \in CoinsOf(quiet), failing \in FailingOf(quiet) :
                \E t \in {IF quiet.scored \/ failing # {} THEN Tick(r, c, failing) ELSE quiet} :
                    /\ t.nhits <= MaxHits
                    /\ ball_x' = t.ball_x
                    /\ ball_y' = t.ball_y
                    /\ speed_x' = t.speed_x
                    /\ speed_y' = t.speed_y
                    /\ hits' = t.hits
                    /\ last_hit' = t.last_hit
                    /\ ai_y' = t.ai_y
                    /\ player_score' = t.player_score
                    /\ ai_score' = t.ai_score
                    /\ sounds' = t.sounds
                    /\ outcomes' = t.outcomes
                    /\ pc' = IF t.raised THEN "raised" ELSE "loop"
    /\ UNCHANGED <<running, game_state, difficulty, queue, player_y, player_speed,
                   ai_speed, reaction_chance, sound_objects, frames>>

(***************************************************************************)
(* Spec: the program with every input unrestricted, for MaxFrames frames.  *)
(***************************************************************************)
Next ==
    \/ Poll(Batches, KeyStates) /\ frames < MaxFrames /\ frames' = frames + 1
    \/ MenuEvent
    \/ GameEvent(KeyStates)
    \/ UpdateGameLogic(Draws)
    \/ Exit

Spec == Init /\ [][Next]_vars

(***************************************************************************)
(* SpecRally: whole rallies.  One difficulty is selected in the menu and   *)
(* the game is then played without further key-down events until          *)
(* MaxPoints points are scored.  The player holds DOWN while the ball      *)
(* moves toward the player paddle and no key otherwise; the AI's           *)
(* random.random() is unrestricted between "reacts" and "does not react";  *)
(* every sound is loaded, and any Sound.play() may raise.                  *)
(***************************************************************************)
RallyBatches == IF game_state = "menu" THEN {<<e>> : e \in DOMAIN SelectedBy} ELSE {<<>>}

RallyKeys == {[up |-> FALSE, down |-> speed_x < 0]}

RallyDraws == {0, 99}

NextRally ==
    \/ Poll(RallyBatches, RallyKeys) /\ player_score + ai_score < MaxPoints /\ UNCHANGED frames
    \/ MenuEvent
    \/ UpdateGameLogic(RallyDraws)

\* the three .wav files are there: every sound has its Sound object
InitRally == Init /\ sound_objects = SoundNames

SpecRally == InitRally /\ [][NextRally]_vars

(***************************************************************************)
(* SpecChase: SpecRally with an AI that reacts in every tick in which the  *)
(* ball approaches it (its random.random() is below the reaction chance).  *)
(***************************************************************************)
ChaseDraws == {0}

NextChase ==
    \/ Poll(RallyBatches, RallyKeys) /\ player_score + ai_score < MaxPoints /\ UNCHANGED frames
    \/ MenuEvent
    \/ UpdateGameLogic(ChaseDraws)

SpecChase == InitRally /\ [][NextChase]_vars

(***************************************************************************)
(* SpecSession: the menu / playing state machine over whole games.  Every  *)
(* frame polls at most one event, of any kind; nobody moves a paddle (no   *)
(* key is held, and the AI's random.random() never falls below its         *)
(* reaction chance), so the ball runs from reset to point.                 *)
(***************************************************************************)
SessionBatches == SeqsUpTo(Events, 1)

SessionKeys == {[up |-> FALSE, down |-> FALSE]}

SessionDraws == {99}

NextSession ==
    \/ Poll(SessionBatches, SessionKeys) /\ player_score + ai_score < MaxPoints /\ UNCHANGED frames
    \/ MenuEvent
    \/ GameEvent(SessionKeys)
    \/ UpdateGameLogic(SessionDraws)
    \/ Exit

SpecSession == Init /\ [][NextSession]_vars

(***************************************************************************)
(* Properties                                                              *)
(***************************************************************************)
\* a sound update_game_logic played in the last tick
Played(s) == \E i \in DOMAIN sounds : sounds[i] = s

\* v is the integer part of n / d
IntegerPart(v, n, d) == d * v <= n /\ n < d * (v + 1)

\* the ball as Ball.reset leaves it, no paddle touched since
AfterReset == ball_x = RESET_X /\ ball_y = RESET_Y * Scale /\ hits = 0

\* the event handle_menu_events is about to handle selects a difficulty
Selecting == pc = "menu_events" /\ queue # <<>> /\ Head(queue) \in DOMAIN SelectedBy

\* C1: in every reachable state both paddles satisfy
\* 0 <= y <= WINDOW_HEIGHT - PADDLE_HEIGHT (= 510).
PaddlesInBounds ==
    /\ 0 <= player_y /\ player_y <= WINDOW_HEIGHT - PADDLE_HEIGHT
    /\ 0 <= ai_y /\ ai_y <= WINDOW_HEIGHT - PADDLE_HEIGHT

\* C2 as stated: in every reachable state speed_x and speed_y are both non-zero.
VelocityNeverZero == speed_x # 0 /\ speed_y # 0

\* C2: speed_x is never zero, and speed_y is non-zero from a reset or a
\* difficulty selection until a paddle collision replaces it (the collision's
\* (hit_pos - 0.5) * 8 is zero when hit_pos is 0.5).
VelocityNonZeroUntilHit == speed_x # 0 /\ (hits = 0 => speed_y # 0)

\* a point has been played, the ball was reset, and a paddle has hit it since
HitAfterReset == hits > 0 /\ player_score + ai_score > 0

\* C3 as stated: after Ball.reset the speed on each axis is exactly
\* base speed * ball_speed_multiplier (4.8 and 3.2 on easy, 7.8 and 5.2 on hard).
ResetSpeedExact ==
    AfterReset =>
        /\ 10 * Abs(speed_x) = BALL_SPEED_X * DIFFICULTY_SETTINGS[difficulty].ball_speed_multiplier
        /\ 10 * Abs(speed_y) =
               Scale * BALL_SPEED_Y * DIFFICULTY_SETTINGS[difficulty].ball_speed_multiplier

\* C3: after Ball.reset the speed on each axis is the integer part of
\* base speed * ball_speed_multiplier: 4, 6, 7 across and 3, 4, 5 down.
ResetSpeedTruncated ==
    AfterReset =>
        /\ IntegerPart(Abs(speed_x),
                       BALL_SPEED_X * DIFFICULTY_SETTINGS[difficulty].ball_speed_multiplier, 10)
        /\ Abs(speed_y) % Scale = 0
        /\ IntegerPart(Abs(speed_y) \div Scale,
                       BALL_SPEED_Y * DIFFICULTY_SETTINGS[difficulty].ball_speed_multiplier, 10)

\* the ball reset after a point on a difficulty whose multiplier is not 1
ResetAfterPointScaled == AfterReset /\ difficulty # "medium" /\ player_score + ai_score > 0

\* C4: one excursion of the ball to a wall flips speed_y once: Ball.move does
\* not reflect the ball in two consecutive ticks.
NoFlipOnConsecutiveTicks ==
    [][(pc = "update" /\ Played("wall_hit"))
         => ~(\E i \in DOMAIN sounds' : sounds'[i] = "wall_hit")]_vars

\* C5: no tick increments both scores; a tick adds at most one point in all.
ScoringExclusive ==
    [][pc = "update" =>
         /\ player_score' >= player_score
         /\ ai_score' >= ai_score
         /\ (player_score' + ai_score') - (player_score + ai_score) \in {0, 1}]_vars

\* each side has scored in some tick
BothSidesScored == player_score > 0 /\ ai_score > 0 /\ pc = "loop"

\* C6: a select in the menu, the first or a later one, leaves the game playing,
\* on the selected difficulty for the ball and for the AI, with both scores zero
\* and the ball at the center.
SelectStartsGame ==
    [][Selecting =>
         LET d == SelectedBy[Head(queue)]
         IN  /\ game_state' = "playing"
             /\ difficulty' = d
             /\ Abs(speed_x') = Ball_speed_x(d)
             /\ Abs(speed_y') = Ball_speed_y(d)
             /\ ai_speed' = AI_paddle_speed(d)
             /\ reaction_chance' = AI_reaction_chance(d)
             /\ player_score' = 0 /\ ai_score' = 0
             /\ ball_x' = RESET_X /\ ball_y' = RESET_Y * Scale]_vars

\* a select is about to be handled after an escape from a game with a point scored,
\* on another difficulty than the one played
Reselecting ==
    /\ Selecting
    /\ game_state = "menu"
    /\ player_score + ai_score > 0
    /\ SelectedBy[Head(queue)] # difficulty

\* C7: the frame that handles an escape during play ends with the scores it
\* began with.
EscapeFrameKeepsScores ==
    [][(pc = "update" /\ game_state = "menu") => UNCHANGED scores]_vars

\* C8: while game_state is 'menu' nothing moves the ball, the paddles or the
\* scores; they change in the menu only through a select (which leaves the menu).
NoPhysicsInMenu ==
    [][(game_state = "menu" /\ game_state' = "menu")
         => UNCHANGED <<ball_x, ball_y, speed_x, speed_y, player_y, ai_y, scores>>]_vars

\* C9: a tick in which the ball does not move toward the AI paddle (speed_x <= 0)
\* leaves the AI paddle where it was.
AIStillWhenBallLeaves ==
    [][(pc = "update" /\ speed_x <= 0) => ai_y' = ai_y]_vars

\* a tick has just run with the ball moving left on its serve, the AI paddle's
\* center farther than the dead zone from the ball's
AIOffBallWhileLeaving ==
    /\ pc = "loop" /\ game_state = "playing"
    /\ speed_x < 0 /\ hits = 0 /\ ball_x < RESET_X
    /\ Abs((ai_y + PADDLE_HEIGHT \div 2) * Scale - (ball_y + (BALL_SIZE \div 2) * Scale))
         > DEAD_ZONE * Scale

\* C10: a tick whose Ball.move takes the ball past x = WINDOW_WIDTH adds one to
\* player_score only and resets the ball; past x = 0 it adds one to ai_score
\* only and resets the ball; otherwise it changes neither score.
ScoreOnExit ==
    [][pc = "update" =>
         LET x == ball_x + speed_x
         IN  /\ x > WINDOW_WIDTH =>
                   /\ player_score' = player_score + 1 /\ ai_score' = ai_score
                   /\ ball_x' = RESET_X /\ ball_y' = RESET_Y * Scale
             /\ x < 0 =>
                   /\ ai_score' = ai_score + 1 /\ player_score' = player_score
                   /\ ball_x' = RESET_X /\ ball_y' = RESET_Y * Scale
             /\ (0 <= x /\ x <= WINDOW_WIDTH) => UNCHANGED scores]_vars

\* the tick just run scored the point that made it one all
ScoredOneAll ==
    pc = "loop" /\ Played("score") /\ AfterReset /\ player_score = 1 /\ ai_score = 1

\* C11: each score is a non-negative integer, and a step that changes the
\* scores is either a tick adding one to one of them and leaving the other, or
\* a select setting both to zero; an escape, a quit or a tick never lowers one.
ScoresChangeByPointOrSelect ==
    [][/\ player_score' >= 0 /\ ai_score' >= 0
       /\ scores' # scores =>
            \/ /\ pc = "update"
               /\ \/ player_score' = player_score + 1 /\ ai_score' = ai_score
                  \/ ai_score' = ai_score + 1 /\ player_score' = player_score
            \/ Selecting /\ player_score' = 0 /\ ai_score' = 0]_vars

\* back in the menu after an escape, a point on the board
EscapedWithPoint == pc = "loop" /\ game_state = "menu" /\ player_score + ai_score > 0

\* the tick just run reflected the ball off a paddle
JustHit == pc = "loop" /\ game_state = "playing" /\ hits > 0 /\ Played("paddle_hit")

\* the y of the paddle that reflected the ball in the tick just run
HitPaddleY == IF speed_x > 0 THEN player_y ELSE ai_y

\* the ball's center as AIPlayer.update computes it
BallCenterY == ball_y + (BALL_SIZE \div 2) * Scale

\* C12 as stated: a reflection with the ball's center at paddle.y + 90 leaves
\* speed_y = 4, and one with the ball's center at paddle.y leaves speed_y = -4.
DeflectionByBallCenter ==
    JustHit =>
        /\ BallCenterY = (HitPaddleY + PADDLE_HEIGHT) * Scale => speed_y = 4 * Scale
        /\ BallCenterY = HitPaddleY * Scale => speed_y = -4 * Scale

\* C12: a tick that reflects the ball off a paddle inverts speed_x and replaces
\* speed_y by (hit_pos - 0.5) * 8, hit_pos = (ball.y - paddle.y) / 90 taken from
\* the ball's top edge after the tick's move, whatever speed_y was; the boxes
\* do not overlap at ball.y = paddle.y + 90, so the new speed_y is below 4.
DeflectionByTopEdge ==
    [][(pc = "update" /\ \E i \in DOMAIN sounds' : sounds'[i] = "paddle_hit") =>
         LET by == ball_y + speed_y
             py == IF speed_x < 0 THEN player_y ELSE ai_y'
         IN  /\ speed_x' = -speed_x
             /\ ball_y' = by
             /\ PADDLE_HEIGHT * speed_y' = 8 * (by - py * Scale) - 4 * PADDLE_HEIGHT * Scale
             /\ speed_y' < 4 * Scale]_vars

\* the tick just run reflected the ball with its center level with the top of
\* the paddle, and speed_y is not -4
HitAtCenterLevelWithTop ==
    JustHit /\ BallCenterY = HitPaddleY * Scale /\ speed_y # -4 * Scale

\* C13: whichever Sound.play() calls of a tick raise, the tick ends in a state
\* that the tick with every play() succeeding also ends in (ball, paddles,
\* scores, game state), and the loop goes on.
AudioNeverAffectsTick ==
    [][pc = "update" =>
         \E r \in DrawsOf(RallyDraws) :
           \E quiet \in {Tick(r, [x |-> TRUE, y |-> TRUE], {})} :
             \E c \in CoinsOf(quiet) :
               \E t \in {IF quiet.scored THEN Tick(r, c, {}) ELSE quiet} :
                /\ ball_x' = t.ball_x /\ ball_y' = t.ball_y
                /\ speed_x' = t.speed_x /\ speed_y' = t.speed_y
                /\ ai_y' = t.ai_y /\ player_y' = player_y
                /\ player_score' = t.player_score /\ ai_score' = t.ai_score
                /\ game_state' = game_state /\ running' = running
                /\ pc' = "loop"]_vars

\* the tick just run reflected the ball off a paddle, the play() of its
\* 'paddle_hit' sound raised, and speed_y was replaced all the same
PaddleSoundFailed ==
    /\ JustHit
    /\ \E i \in DOMAIN sounds : sounds[i] = "paddle_hit" /\ outcomes[i] = "swallowed"
    /\ PADDLE_HEIGHT * speed_y = 8 * (ball_y - HitPaddleY * Scale) - 4 * PADDLE_HEIGHT * Scale

\* the AI paddle's center, and the ball's center after the move of the tick
\* about to run, as AIPlayer.update will compute them
PaddleCenterAtUpdate == (ai_y + PADDLE_HEIGHT \div 2) * Scale

BallCenterAtUpdate == ball_y + speed_y + (BALL_SIZE \div 2) * Scale

\* C14 as stated: when the ball approaches and the AI reacts, the AI paddle
\* moves down iff its center is more than 15 above the ball's, and up iff it is
\* more than 15 below.
AIMovesIffOutsideDeadZone ==
    [][(pc = "update" /\ speed_x > 0) =>
         /\ ai_y' > ai_y <=> PaddleCenterAtUpdate < BallCenterAtUpdate - DEAD_ZONE * Scale
         /\ ai_y' < ai_y <=> PaddleCenterAtUpdate > BallCenterAtUpdate + DEAD_ZONE * Scale]_vars

\* C14: when the ball approaches and the AI reacts, the AI paddle is moved down
\* by one step of its speed iff its center is more than 15 above the ball's and
\* its y is below WINDOW_HEIGHT - PADDLE_HEIGHT, up by one step iff its center
\* is more than 15 below the ball's and its y is above 0, and is left otherwise.
AIStepsUnlessAtEdge ==
    [][(pc = "update" /\ speed_x > 0) =>
         /\ ai_y' \in {ai_y, ai_y + ai_speed, ai_y - ai_speed}
         /\ ai_y' > ai_y <=> /\ PaddleCenterAtUpdate < BallCenterAtUpdate - DEAD_ZONE * Scale
                             /\ ai_y < WINDOW_HEIGHT - PADDLE_HEIGHT
         /\ ai_y' < ai_y <=> /\ PaddleCenterAtUpdate > BallCenterAtUpdate + DEAD_ZONE * Scale
                             /\ ai_y > 0]_vars

\* the ball approaches, and the tick just run left the AI paddle at the bottom
\* edge with its center more than 15 above the ball's
AIAtEdgeAboveBall ==
    /\ pc = "loop" /\ game_state = "playing"
    /\ speed_x > 0 /\ ~Played("paddle_hit")
    /\ ai_y >= WINDOW_HEIGHT - PADDLE_HEIGHT
    /\ (ai_y + PADDLE_HEIGHT \div 2) * Scale < BallCenterY - DEAD_ZONE * Scale

\* the paddle whose side of the field the ball is on after the step
NearPaddleX == IF ball_x' < WINDOW_WIDTH \div 2 THEN PLAYER_X ELSE AI_X

NearPaddleY == IF ball_x' < WINDOW_WIDTH \div 2 THEN player_y' ELSE ai_y'

NearPaddle == IF ball_x' < WINDOW_WIDTH \div 2 THEN "player" ELSE "ai"

\* C15: a tick reflects the ball off a paddle only if the ball's box overlaps
\* the paddle's after the move and the ball was moving toward that paddle, and
\* the latest reflection since the ball was reset, if any, was by the other
\* paddle: no paddle reflects the ball twice in a row.
ReflectionsAlternate ==
    [][(pc = "update" /\ \E i \in DOMAIN sounds' : sounds'[i] = "paddle_hit") =>
         /\ ball_x' < NearPaddleX + PADDLE_WIDTH /\ NearPaddleX < ball_x' + BALL_SIZE
         /\ PyInt(ball_y', Scale) < NearPaddleY + PADDLE_HEIGHT
         /\ NearPaddleY < PyInt(ball_y', Scale) + BALL_SIZE
         /\ IF NearPaddle = "player" THEN speed_x < 0 /\ speed_x' > 0
                                     ELSE speed_x > 0 /\ speed_x' < 0
         /\ last_hit # NearPaddle
         /\ last_hit' = NearPaddle]_vars

\* the player paddle has reflected the ball after the AI paddle did
PlayerHitAfterAI == pc = "loop" /\ hits = 2 /\ last_hit = "player" /\ speed_x > 0

\* -1, 0 or 1
Sign(n) == IF n < 0 THEN -1 ELSE IF n > 0 THEN 1 ELSE 0

\* the velocity Ball.set_difficulty leaves when start_game calls it for the
\* select about to be handled
SelectedVelocity == Ball_set_difficulty(speed_x, speed_y, SelectedBy[Head(queue)])

\* C16 as stated: Ball.set_difficulty keeps the sign of each axis of the
\* velocity the ball had.
SetDifficultyKeepsSign ==
    Selecting =>
        /\ Sign(SelectedVelocity.speed_x) = Sign(speed_x)
        /\ Sign(SelectedVelocity.speed_y) = Sign(speed_y)

\* C16: Ball.set_difficulty leaves both axes positive, the integer parts of
\* base speed * multiplier, whatever the signs were.
SetDifficultyLeavesPositive ==
    Selecting =>
        LET m == DIFFICULTY_SETTINGS[SelectedBy[Head(queue)]].ball_speed_multiplier
        IN  /\ SelectedVelocity.speed_x > 0
            /\ SelectedVelocity.speed_y > 0
            /\ IntegerPart(SelectedVelocity.speed_x, BALL_SPEED_X * m, 10)
            /\ IntegerPart(SelectedVelocity.speed_y \div Scale, BALL_SPEED_Y * m, 10)

\* a select is about to be handled with the ball moving left and up
SelectingWhileMovingLeftUp == Selecting /\ speed_x < 0 /\ speed_y < 0 /\ ball_x < RESET_X

\* an escape key-down is about to be handled by the for loop that is running
HandlingEscape ==
    pc \in {"menu_events", "game_events"} /\ queue # <<>> /\ Head(queue) = "K_ESCAPE"

\* C17: an escape handled while game_state is 'playing' leaves game_state
\* 'menu' and running as it was, also when it was polled in the batch of the
\* select that started the game.
EscapeWhilePlayingGoesToMenu ==
    [][(HandlingEscape /\ game_state = "playing")
         => game_state' = "menu" /\ running' = running]_vars

\* C18: a select handled in the menu leaves the scores zero and the ball and
\* both paddles where PongGame.__init__ put them.
SelectResetsPositions ==
    [][(Selecting /\ game_state = "menu") =>
         /\ player_score' = 0 /\ ai_score' = 0
         /\ ball_x' = RESET_X /\ ball_y' = RESET_Y * Scale
         /\ player_y' = WINDOW_HEIGHT \div 2 - PADDLE_HEIGHT \div 2
         /\ ai_y' = WINDOW_HEIGHT \div 2 - PADDLE_HEIGHT \div 2]_vars

\* the ball, the AI and the paddles have the values of the current difficulty
ProfileInForce ==
    LET profile == DIFFICULTY_SETTINGS[difficulty]
    IN  /\ difficulty \in Difficulties
        /\ IntegerPart(Abs(speed_x), BALL_SPEED_X * profile.ball_speed_multiplier, 10)
        /\ reaction_chance = profile.ai_reaction
        /\ IntegerPart(ai_speed, PADDLE_SPEED * profile.ai_speed, 10)
        /\ player_speed = PADDLE_SPEED

\* C19: in every state |speed_x|, the AI's reaction chance and the AI paddle's
\* speed are those of the current difficulty (medium at first) and the player
\* paddle's speed is PADDLE_SPEED; the difficulty, and with it |speed_x|,
\* changes only when a select is handled, never in a tick.
OneProfileInForce ==
    /\ ProfileInForce
    /\ [][/\ ProfileInForce'
          /\ (difficulty' # difficulty \/ Abs(speed_x') # Abs(speed_x)) => Selecting]_vars

\* both paddles have reflected the ball on a difficulty other than medium
RallyOffMedium == hits = 2 /\ difficulty # "medium" /\ pc = "loop"

\* C20: the ball's x is within [0, WINDOW_WIDTH] at the end of every tick, hence
\* in every state: a tick that moves it out resets it.
BallXInField == 0 <= ball_x /\ ball_x <= WINDOW_WIDTH

\* the tick just run took the ball past the left edge, and reset it
ResetAfterLeftExit ==
    pc = "loop" /\ Played("score") /\ AfterReset /\ player_score = 0 /\ ai_score = 1

=============================================================================
